---- MODULE Spec2Model ----
(***************************************************************************)
(* llmq: streaming context synchronization engine.                         *)
(*                                                                         *)
(* Texts (file contents, serializations, network chunks) are sequences of  *)
(* one-token strings.  Structural characters keep their spelling ("{",     *)
(* "}", the double quote and the backslash); every other token stands for  *)
(* a brace-free, quote-free piece of text.                                 *)
(***************************************************************************)
EXTENDS Integers, Sequences, FiniteSets, TLC

\* ------------------------------------------------------------------ bounds
NProcs     == 2     \* process slots of the lock specification
MaxRuns    == 2     \* process starts per behaviour
MaxLen     == 3     \* longest text handed to overwrite by the writer specification
MaxBuf     == 5     \* longest pending reply buffer of the program
MaxText    == 5     \* longest pending reply buffer of the extractor runs
MaxContent == 2     \* content increments stored in one message
MaxMsgs    == 3     \* messages of one Document

\* ------------------------------------------------------------- characters
LBRACE == "{"
RBRACE == "}"
QUOTE  == "\""
BSLASH == "\\"
NUL    == "NUL"     \* byte of a hole left by a write past the end of file

Procs == 1..NProcs

Max(a, b) == IF a >= b THEN a ELSE b
Min(a, b) == IF a <= b THEN a ELSE b

\* all texts over alphabet S of length 0..n
Texts(S, n) == UNION {[1..k -> S] : k \in 0..n}

IsPrefix(s, t) == Len(s) <= Len(t) /\ SubSeq(t, 1, Len(s)) = s

VARIABLES
    file,       \* bytes of the context file
    fexists,    \* the context file exists
    holders,    \* processes holding the exclusive fcntl lock on the file
    runs,       \* number of processes started so far
    pc,         \* pc[p]: position of process p in main()
    act,        \* act[p]: the action process p runs ("chat", "query", "init")
    print,      \* print[p]: the print flag handed to onreply/onfinish
    retry,      \* retry[p]: the remaining retry credit
    buf,        \* buf[p]: context_writer::_buf (oldctx before construction)
    doc,        \* doc[p]: gpt::ctx, the Document
    replies,    \* replies[p]: impl::replies, message positions of the slots
    reply_buf,  \* reply_buf[p]: impl::reply_buf, the pending text
    out,        \* out[p]: texts written to stdout by onreply
    nreq,       \* nreq[p]: calls of request() made by the action's loop
    post_buf,   \* post_buf[p]: impl::post_buf, the body of the last request
    scan,       \* the locate-and-signal pass of a kill action
    tmp,        \* temporary context names: the clock, the files, each init's choice
    ow,         \* record of the most recent overwrite call
    cb,         \* record of the most recent chunk callback
    lockFailed, \* processes whose F_SETLK failed
    wrote       \* processes that called write_file on the context file

fileVars == <<file, fexists, holders>>
procVars == <<pc, act, print, retry>>
plugVars == <<doc, replies, reply_buf, out>>
reqVars  == <<nreq, post_buf>>
histVars == <<ow, cb, lockFailed, wrote>>
vars == <<file, fexists, holders, runs, pc, act, print, retry, buf, doc,
          replies, reply_buf, out, nreq, post_buf, scan, tmp, ow, cb, lockFailed,
          wrote>>

\* ------------------------------------------------------- context_writer
\* fseek + fwrite of data at byte offset ofs (seek_file, write_file)
WriteAt(f, ofs, data) ==
    [i \in 1..Max(Len(f), ofs + Len(data)) |->
        IF i > ofs /\ i <= ofs + Len(data) THEN data[i - ofs]
        ELSE IF i <= Len(f) THEN f[i] ELSE NUL]

\* inner for loop of overwrite: skip to the end of the differing run
RECURSIVE DiffEnd(_, _, _, _)
DiffEnd(b, c, bi, ci) ==
    IF bi < Len(b) /\ ci < Len(c) /\ b[bi + 1] # c[ci + 1]
    THEN DiffEnd(b, c, bi + 1, ci + 1)
    ELSE <<bi, ci>>

\* while loop of overwrite; log collects the write_file calls <<offset, data>>
RECURSIVE OverwriteLoop(_, _, _, _, _, _)
OverwriteLoop(f, b, c, bi, ci, log) ==
    IF bi < Len(b) /\ ci < Len(c)
    THEN IF b[bi + 1] = c[ci + 1]
         THEN OverwriteLoop(f, b, c, bi + 1, ci + 1, log)
         ELSE LET e    == DiffEnd(b, c, bi, ci)
                  data == SubSeq(c, ci + 1, e[2])
              IN  OverwriteLoop(WriteAt(f, ci, data), b, c, e[1], e[2],
                                Append(log, <<ci, data>>))
    ELSE [file |-> f, ci |-> ci, log |-> log]

\* a faithful-to-the-documentation variant that truncates after a shrink
OverwriteTruncating(f, b, c) ==
    [file |-> c, log |-> <<<<0, c>>>>]

\* a variant that forgets the trailing excess of a longer serialization
OverwriteNoTail(f, b, c) ==
    LET r == OverwriteLoop(f, b, c, 0, 0, <<>>)
    IN  [file |-> r.file, log |-> r.log]

\* a variant that rewrites the whole serialization on every call
OverwriteWhole(f, b, c) ==
    [file |-> WriteAt(f, 0, c), log |-> <<<<0, c>>>>]

\* context_writer::overwrite on file f with _buf = b and cur = c
OverwriteResult(f, b, c) ==
    LET r == OverwriteLoop(f, b, c, 0, 0, <<>>)
    IN  IF r.ci < Len(c)
        THEN LET tail == SubSeq(c, r.ci + 1, Len(c))
             IN  [file |-> WriteAt(r.file, r.ci, tail),
                  log  |-> Append(r.log, <<r.ci, tail>>)]
        ELSE [file |-> r.file, log |-> r.log]

NoOverwrite == [called |-> FALSE, p |-> 0, A |-> <<>>, F |-> <<>>,
                B |-> <<>>, log |-> <<>>, calls |-> 0, grew |-> TRUE]

\* the effect of process p calling overwrite with serialization c
DoOverwrite(p, c) ==
    LET r == OverwriteResult(file, buf[p], c)
    IN  /\ file' = r.file
        /\ buf' = [buf EXCEPT ![p] = c]
        /\ ow' = [called |-> TRUE, p |-> p, A |-> buf[p], F |-> file,
                  B |-> c, log |-> r.log,
                  calls |-> Min(ow.calls + 1, 2),
                  grew |-> ow.grew /\ Len(c) >= Len(buf[p])]
        /\ wrote' = IF r.log # <<>> THEN wrote \cup {p} ELSE wrote

\* ------------------------------------------------------------- Document
\* gpt::ctx: the "n" option (0: not set) and the "messages" sequence
EmptyDoc == [n |-> 0, messages |-> <<>>]

Roles == {"a", "u"}              \* "assistant", "user"

NTok(n) == IF n = 1 THEN "1" ELSE "2"
NVal(t) == IF t = "1" THEN 1 ELSE 2

\* gpt::add_message: append a {role, content} map to "messages"
add_message(d, role, content) ==
    [d EXCEPT !.messages = Append(@, [role |-> role, content |-> content])]

\* ryml::emitrs_yaml of one message: "- role: R", "content:" and the
\* double-quoted content (VALQUO)
EmitMessage(m) ==
    <<"-">> \o (IF m.role = "" THEN <<>> ELSE <<m.role>>)
            \o <<QUOTE>> \o m.content \o <<QUOTE>>

RECURSIVE EmitMessages(_)
EmitMessages(ms) ==
    IF ms = <<>> THEN <<>>
    ELSE EmitMessage(Head(ms)) \o EmitMessages(Tail(ms))

\* ryml::emitrs_yaml of the Document; an empty map is emitted as "{}"
Serialize(d) ==
    IF d.n = 0 /\ d.messages = <<>> THEN <<LBRACE, RBRACE>>
    ELSE (IF d.n # 0 THEN <<"n", NTok(d.n)>> ELSE <<>>)
         \o EmitMessages(d.messages)

\* the text of a double-quoted scalar up to its closing quote
RECURSIVE TakeQuoted(_, _)
TakeQuoted(t, acc) ==
    IF t = <<>> THEN [ok |-> FALSE, val |-> acc, rest |-> <<>>]
    ELSE IF Head(t) = QUOTE THEN [ok |-> TRUE, val |-> acc, rest |-> Tail(t)]
    ELSE TakeQuoted(Tail(t), Append(acc, Head(t)))

BadYaml(d) == [ok |-> FALSE, doc |-> d]

\* ryml::parse_in_arena of a context file; "w" is blank space or a comment
RECURSIVE ParseItems(_, _)
ParseItems(t, d) ==
    IF t = <<>> THEN [ok |-> TRUE, doc |-> d]
    ELSE IF Head(t) = "w" THEN ParseItems(Tail(t), d)
    ELSE IF Head(t) = "n"
    THEN IF Len(t) >= 2 /\ t[2] \in {"1", "2"}
         THEN ParseItems(SubSeq(t, 3, Len(t)), [d EXCEPT !.n = NVal(t[2])])
         ELSE BadYaml(d)
    ELSE IF Head(t) = "-"
    THEN LET t1   == Tail(t)
             named == t1 # <<>> /\ Head(t1) \in Roles
             role == IF named THEN Head(t1) ELSE ""
             t2   == IF named THEN Tail(t1) ELSE t1
         IN  IF t2 # <<>> /\ Head(t2) = QUOTE
             THEN LET q == TakeQuoted(Tail(t2), <<>>)
                  IN  IF q.ok
                      THEN ParseItems(q.rest, add_message(d, role, q.val))
                      ELSE BadYaml(d)
             ELSE BadYaml(d)
    ELSE BadYaml(d)

\* parse_context followed by the root checks of gpt::init: an empty tree and
\* "{}" give the empty map
ParseYaml(t) ==
    LET body == SelectSeq(t, LAMBDA c : c # "w")
    IN  IF body = <<>> \/ body = <<LBRACE, RBRACE>>
        THEN [ok |-> TRUE, doc |-> EmptyDoc]
        ELSE ParseItems(t, EmptyDoc)

\* the TAGMSG / USRMSG arguments of gpt::init, in order
RECURSIVE AddArgs(_, _)
AddArgs(d, args) ==
    IF args = <<>> THEN d
    ELSE AddArgs(add_message(d, Head(args).role, Head(args).content), Tail(args))

DocSize(d) == Len(d.messages)

RECURSIVE ContentWithin(_, _)
ContentWithin(ms, k) ==
    IF ms = <<>> THEN TRUE
    ELSE Len(Head(ms).content) <= k /\ ContentWithin(Tail(ms), k)

\* ---------------------------------------------------- Fragment Extractor
NPOS == -1      \* std::string_view::npos

NoJson(s) == [begin |-> Len(s), len |-> 0]

\* an extractor that forgets string mode: every brace counts
RECURSIVE FindJsonNoQuotes(_, _, _, _, _)
FindJsonNoQuotes(s, i, depth, s_esc, begin) ==
    IF i >= Len(s) THEN NoJson(s)
    ELSE LET c == s[i + 1]
         IN  IF c = LBRACE
             THEN FindJsonNoQuotes(s, i + 1, depth + 1, s_esc,
                                   IF depth = 0 THEN i ELSE begin)
             ELSE IF c = RBRACE
             THEN IF depth - 1 = 0
                  THEN [begin |-> begin, len |-> i - begin + 1]
                  ELSE FindJsonNoQuotes(s, i + 1, depth - 1, s_esc, begin)
             ELSE FindJsonNoQuotes(s, i + 1, depth, s_esc, begin)

\* an extractor for which a backslash is an ordinary character of a string
RECURSIVE FindJsonNoEscape(_, _, _, _, _)
FindJsonNoEscape(s, i, depth, s_esc, begin) ==
    IF i >= Len(s) THEN NoJson(s)
    ELSE LET c == s[i + 1]
         IN  IF s_esc
             THEN IF c = QUOTE
                  THEN FindJsonNoEscape(s, i + 1, depth, FALSE, begin)
                  ELSE FindJsonNoEscape(s, i + 1, depth, s_esc, begin)
             ELSE IF c = LBRACE
                  THEN FindJsonNoEscape(s, i + 1, depth + 1, s_esc,
                                        IF depth = 0 THEN i ELSE begin)
                  ELSE IF c = RBRACE
                  THEN IF depth - 1 = 0
                       THEN [begin |-> begin, len |-> i - begin + 1]
                       ELSE FindJsonNoEscape(s, i + 1, depth - 1, s_esc, begin)
                  ELSE IF c = QUOTE
                  THEN FindJsonNoEscape(s, i + 1, depth, TRUE, begin)
                  ELSE FindJsonNoEscape(s, i + 1, depth, s_esc, begin)

\* the for loop of find_json; i, begin are zero-based, s_esc is string mode
RECURSIVE FindJsonLoop(_, _, _, _, _)
FindJsonLoop(s, i, depth, s_esc, begin) ==
    IF i >= Len(s) THEN NoJson(s)
    ELSE LET c == s[i + 1]
         IN  IF s_esc
             THEN IF c = BSLASH
                  THEN FindJsonLoop(s, i + 2, depth, s_esc, begin)
                  ELSE IF c = QUOTE
                  THEN FindJsonLoop(s, i + 1, depth, FALSE, begin)
                  ELSE FindJsonLoop(s, i + 1, depth, s_esc, begin)
             ELSE IF c = LBRACE
                  THEN FindJsonLoop(s, i + 1, depth + 1, s_esc,
                                    IF depth = 0 THEN i ELSE begin)
                  ELSE IF c = RBRACE
                  THEN IF depth - 1 = 0
                       THEN [begin |-> begin, len |-> i - begin + 1]
                       ELSE FindJsonLoop(s, i + 1, depth - 1, s_esc, begin)
                  ELSE IF c = QUOTE
                  THEN FindJsonLoop(s, i + 1, depth, TRUE, begin)
                  ELSE FindJsonLoop(s, i + 1, depth, s_esc, begin)

\* find_json: the view of the first complete top-level object of s,
\* or the empty view at the end of s
find_json(s) == FindJsonLoop(s, 0, 0, FALSE, NPOS)

\* the text a view covers
ViewText(s, v) == SubSeq(s, v.begin + 1, v.begin + v.len)

\* ------------------------------------------------------------ wire format
\* A record token stands for the fields of one choice record: its kind
\* ("D": a map-valued delta, "M": a full message, "Q": a delta that is no
\* map, "N": neither), its index, role and content ("_": field absent).
Kinds    == {"D", "M", "Q", "N"}
Indices  == {"0", "1", "_"}
RoleToks == {"a", "u", "_"}
ContToks == {"x", "y", "_"}

RecFields == Kinds \X Indices \X RoleToks \X ContToks
RecTok(f) == f[1] \o f[2] \o f[3] \o f[4]
RecToks   == {RecTok(f) : f \in RecFields}

Decode == [t \in RecToks |->
              LET f == CHOOSE g \in RecFields : RecTok(g) = t
              IN  [kind |-> f[1], index |-> f[2], role |-> f[3], content |-> f[4]]]

NoRecord == [kind |-> "N", index |-> "_", role |-> "_", content |-> "_"]

\* the objects nested directly in text t, in order
RECURSIVE Objects(_)
Objects(t) ==
    LET v == find_json(t)
    IN  IF v.len = 0 THEN <<>>
        ELSE <<ViewText(t, v)>>
             \o Objects(SubSeq(t, v.begin + v.len + 1, Len(t)))

\* the fields of one choice record: those of its first record token
RecordOf(obj) ==
    LET ts == SelectSeq(obj, LAMBDA c : c \in RecToks)
    IN  IF ts = <<>> THEN NoRecord ELSE Decode[Head(ts)]

\* ryml::parse_in_place of a fragment: root["choices"].  "E" is an empty
\* "choices" sequence, "S" a "choices" that is no sequence; without either
\* the nested objects are the choice records, and without any the key is
\* missing.
ParseReply(json) ==
    LET inner == SubSeq(json, 2, Len(json) - 1)
        objs  == Objects(inner)
    IN  IF objs # <<>>
        THEN [choices |-> "seq", records |-> [i \in 1..Len(objs) |-> RecordOf(objs[i])]]
        ELSE IF \E i \in 1..Len(inner) : inner[i] = "E"
        THEN [choices |-> "seq", records |-> <<>>]
        ELSE IF \E i \in 1..Len(inner) : inner[i] = "S"
        THEN [choices |-> "notseq", records |-> <<>>]
        ELSE [choices |-> "seed", records |-> <<>>]

\* ---------------------------------------------------------- Delta Merger
\* ryml NodeRef::empty(): no children, no key and no value.  A node reached
\* through a map key ("role", "choices") has a key.
NodeEmpty(key, val, nchildren) == nchildren = 0 /\ key = "" /\ val = ""

IdxVal(t) == IF t = "0" THEN 0 ELSE 1

\* a growth that labels the slots it creates "assistant"
RECURSIVE GrowAssistant(_, _)
GrowAssistant(st, idx) ==
    IF idx >= Len(st.replies)
    THEN GrowAssistant([st EXCEPT !.doc = add_message(@, "a", <<>>),
                                  !.replies = Append(@, Len(st.doc.messages) + 1)],
                       idx)
    ELSE st

\* while (idx >= impl::replies.size()) push_back(add_message("", ""))
RECURSIVE Grow(_, _)
Grow(st, idx) ==
    IF idx >= Len(st.replies)
    THEN Grow([st EXCEPT !.doc = add_message(@, "", <<>>),
                         !.replies = Append(@, Len(st.doc.messages) + 1)], idx)
    ELSE st

Fail(st) == [st EXCEPT !.err = TRUE]

\* a store that replaces the content by the increment
StoreReplacing(st, pos, role, content, aprint) ==
    LET cur     == st.doc.messages[pos]
        printed == IF aprint THEN [st EXCEPT !.out = @ \o content] ELSE st
    IN  IF cur.role # "" /\ cur.role # role
        THEN Fail(printed)
        ELSE [printed EXCEPT !.doc.messages[pos] =
                 [role |-> role, content |-> content]]

\* a store that takes whatever role the record supplies
StoreAnyRole(st, pos, role, content, aprint) ==
    LET cur     == st.doc.messages[pos]
        printed == IF aprint THEN [st EXCEPT !.out = @ \o content] ELSE st
    IN  [printed EXCEPT !.doc.messages[pos] =
            [role |-> role, content |-> cur.content \o content]]

\* lines 349-361: print, check the role against the slot, store
Store(st, pos, role, content, aprint) ==
    LET cur     == st.doc.messages[pos]
        printed == IF aprint THEN [st EXCEPT !.out = @ \o content] ELSE st
    IN  IF cur.role # "" /\ cur.role # role
        THEN Fail(printed)
        ELSE [printed EXCEPT !.doc.messages[pos] =
                 [role |-> role, content |-> cur.content \o content]]

\* one iteration of the loop over choices (lines 307-362)
MergeChoice(st, rec, aprint) ==
    IF rec.index = "_" THEN Fail(st)
    ELSE LET idx == IdxVal(rec.index)
             g   == Grow(st, idx)
             pos == g.replies[idx + 1]
             cur == g.doc.messages[pos]
         IN  IF rec.kind = "M"
             THEN IF rec.role = "_" \/ rec.content = "_"
                  THEN Fail(g)
                  ELSE Store(g, pos, rec.role, <<rec.content>>, aprint)
             ELSE IF rec.kind # "D" THEN Fail(g)
             ELSE LET content == IF rec.content = "_" THEN <<>>
                                 ELSE <<rec.content>>
                  IN  IF rec.role = "_"
                      THEN IF NodeEmpty("role", cur.role, 0)
                           THEN Fail(g)
                           ELSE Store(g, pos, cur.role, content, aprint)
                      ELSE Store(g, pos, rec.role, content, aprint)

\* the loop over choices: stops at the first exception
RECURSIVE MergeAll(_, _, _)
MergeAll(st, recs, aprint) ==
    IF recs = <<>> \/ st.err THEN st
    ELSE MergeAll(MergeChoice(st, Head(recs), aprint), Tail(recs), aprint)

\* an erase that removes only as many bytes as the fragment is long
EraseFragmentLength(full, v) == SubSeq(full, v.len + 1, Len(full))

\* impl::reply_buf.erase(0, jview.data() + jview.size() - reply_buf.data())
EraseConsumed(full, v) == SubSeq(full, v.begin + v.len + 1, Len(full))

\* gpt::onreply on plugin state st = [doc, replies, reply_buf, out] with
\* print flag pr; err: an exception left the function; json: the fragment
OnReply(st, chunk, pr) ==
    LET full == st.reply_buf \o chunk
        v    == find_json(full)
        st0  == [doc |-> st.doc, replies |-> st.replies, reply_buf |-> full,
                 out |-> st.out, err |-> FALSE, json |-> <<>>]
    IN  IF v.len = 0 THEN st0
        ELSE LET json   == ViewText(full, v)
                 st1    == [st0 EXCEPT !.json = json,
                                       !.reply_buf = EraseConsumed(full, v)]
                 tree   == ParseReply(json)
                 aprint == pr /\ st.doc.n \in {0, 1}
             IN  IF tree.choices = "seq"
                    /\ ~NodeEmpty("choices", "", Len(tree.records))
                 THEN MergeAll(st1, tree.records, aprint)
                 ELSE Fail(st1)

PlugState(p) == [doc |-> doc[p], replies |-> replies[p],
                 reply_buf |-> reply_buf[p], out |-> out[p]]

\* gpt::onfinish throws: n > 1 choices expected and the last n messages are
\* missing or not all of role "assistant"
OnFinishThrows(d, pr) ==
    /\ pr
    /\ d.n > 1
    /\ \/ Len(d.messages) < d.n
       \/ \E i \in 1..d.n : d.messages[Len(d.messages) - d.n + i].role # "a"

\* ------------------------------------------------------------ processes
Ended == {"idle", "done", "dead", "killed"}
Alive(p) == pc[p] \notin Ended

NoCallback == [called |-> FALSE, p |-> 0, full |-> <<>>,
               json |-> <<>>, pdoc |-> EmptyDoc, res |-> "none",
               preplies |-> <<>>, pout |-> <<>>, doc0 |-> EmptyDoc,
               clean |-> TRUE, incs |-> [i \in {0, 1} |-> <<>>],
               roles |-> [i \in {0, 1} |-> ""], stream |-> <<>>,
               abort |-> [doc |-> EmptyDoc, replies |-> <<>>],
               rincs |-> [i \in {0, 1} |-> <<>>]]

\* no init action without CONTEXT has run: the clock at second 0, no
\* temporary file, no process choosing a name
NoTmp == [now |-> 0, files |-> {}, inits |-> 0,
          st |-> [p \in 1..NProcs |-> "idle"],
          base |-> [p \in 1..NProcs |-> 0],
          idx |-> [p \in 1..NProcs |-> 0],
          chosen |-> <<>>]

\* no kill action has run
NoScan == [st |-> "idle", table |-> <<>>, self |-> 0, i |-> 0,
           killed |-> FALSE, signaled |-> <<>>, warned |-> 0]

\* ryml::emitrs_json of one message
EmitJsonMessage(m) ==
    <<LBRACE>> \o (IF m.role = "" THEN <<>> ELSE <<m.role>>)
               \o <<QUOTE>> \o m.content \o <<QUOTE, RBRACE>>

RECURSIVE EmitJsonMessages(_)
EmitJsonMessages(ms) ==
    IF ms = <<>> THEN <<>>
    ELSE EmitJsonMessage(Head(ms)) \o EmitJsonMessages(Tail(ms))

\* ryml::emitrs_json of the Document
EmitJson(d) ==
    <<LBRACE>> \o (IF d.n # 0 THEN <<"n", NTok(d.n)>> ELSE <<>>)
               \o EmitJsonMessages(d.messages) \o <<RBRACE>>

\* a body that is computed for the first request and sent again after it
PostBodyOnce(p, d) == IF nreq[p] = 0 THEN EmitJson(d) ELSE post_buf[p]

\* gpt::post: impl::post_buf = ryml::emitrs_json(ctx), the Document as it
\* is when request() asks for the body
PostBody(p, d) == EmitJson(d)

\* request(): one more call, its body taken from the plugin
Issue(p, d) ==
    /\ nreq' = [nreq EXCEPT ![p] = @ + 1]
    /\ post_buf' = [post_buf EXCEPT ![p] = PostBody(p, d)]

WithinBounds(d) ==
    Len(d.messages) <= MaxMsgs /\ ContentWithin(d.messages, MaxContent)

\* an exit that leaves the lock behind (as a lock file would)
DieHoldingLock(p) ==
    /\ pc' = [pc EXCEPT ![p] = "dead"]
    /\ holders' = holders

\* die(): std::exit(1); the kernel drops the process's fcntl locks
Die(p) ==
    /\ pc' = [pc EXCEPT ![p] = "dead"]
    /\ holders' = holders \ {p}

\* a teardown that closes nothing and unlocks nothing
ReturnHoldingLock(p) ==
    /\ pc' = [pc EXCEPT ![p] = "done"]
    /\ holders' = holders

\* return from main: ~context_writer unlocks (F_UNLCK) and closes the file
Return(p) ==
    /\ pc' = [pc EXCEPT ![p] = "done"]
    /\ holders' = holders \ {p}

\* a shared (F_RDLCK) request: granted whoever holds the lock
TryLockShared(h, p) == [ok |-> TRUE, holders |-> h \cup {p}]

\* a request that ignores the result of fcntl
TryLockUnchecked(h, p) ==
    [ok |-> TRUE, holders |-> IF h \ {p} = {} THEN h \cup {p} ELSE h]

\* fcntl(F_SETLK, F_WRLCK) by process p: granted iff no other process holds
\* a lock on the file; never blocks
TryLock(h, p) ==
    IF h \ {p} = {} THEN [ok |-> TRUE, holders |-> h \cup {p}]
    ELSE [ok |-> FALSE, holders |-> h]

\* a new process enters main() with action a, print flag pr, retry flag rt
Start(p, a, pr, rt) ==
    /\ pc[p] \in Ended
    /\ runs < MaxRuns
    /\ runs' = runs + 1
    /\ pc' = [pc EXCEPT ![p] = "start"]
    /\ act' = [act EXCEPT ![p] = a]
    /\ print' = [print EXCEPT ![p] = pr]
    /\ retry' = [retry EXCEPT ![p] = rt]
    /\ buf' = [buf EXCEPT ![p] = <<>>]
    /\ doc' = [doc EXCEPT ![p] = EmptyDoc]
    /\ replies' = [replies EXCEPT ![p] = <<>>]
    /\ reply_buf' = [reply_buf EXCEPT ![p] = <<>>]
    /\ out' = [out EXCEPT ![p] = <<>>]
    /\ nreq' = [nreq EXCEPT ![p] = 0]
    /\ post_buf' = [post_buf EXCEPT ![p] = <<>>]
    /\ lockFailed' = lockFailed \ {p}
    /\ wrote' = wrote \ {p}
    /\ UNCHANGED <<file, fexists, holders, scan, tmp, ow, cb>>

\* prepare_ctxfile: fs::exists(f)
Prepare(p) ==
    /\ pc[p] = "start"
    /\ pc' = [pc EXCEPT ![p] = IF fexists THEN "read" ELSE "touch"]
    /\ UNCHANGED <<file, fexists, holders, runs, act, print, retry, buf>>
    /\ UNCHANGED <<plugVars, reqVars, scan, tmp, histVars>>

\* prepare_ctxfile: mkdir_p and touch (O_CREAT | O_WRONLY | O_TRUNC)
Touch(p) ==
    /\ pc[p] = "touch"
    /\ file' = <<>>
    /\ fexists' = TRUE
    /\ pc' = [pc EXCEPT ![p] = "read"]
    /\ UNCHANGED <<holders, runs, act, print, retry, buf>>
    /\ UNCHANGED <<plugVars, reqVars, scan, tmp, histVars>>

\* read_context, parse_context and gpt::init with the "n" option nopt
\* (0: not given) and the message arguments args
ReadContext(p, args, nopt) ==
    /\ pc[p] = "read"
    /\ LET y == ParseYaml(file)
           d == AddArgs([y.doc EXCEPT !.n = IF nopt # 0 THEN nopt ELSE @], args)
       IN  IF y.ok
           THEN /\ WithinBounds(d)
                /\ doc' = [doc EXCEPT ![p] = d]
                /\ buf' = [buf EXCEPT ![p] = file]
                /\ pc' = [pc EXCEPT ![p] = IF act[p] = "query" THEN "request"
                                           ELSE "construct"]
                /\ IF act[p] = "query" THEN Issue(p, d) ELSE UNCHANGED reqVars
                /\ UNCHANGED holders
           ELSE /\ Die(p)
                /\ UNCHANGED <<doc, buf, reqVars>>
    /\ UNCHANGED <<file, fexists, runs, act, print, retry>>
    /\ UNCHANGED <<replies, reply_buf, out, scan, tmp, histVars>>

\* context_writer::context_writer: open "r+" and lock, or die
Construct(p) ==
    /\ pc[p] = "construct"
    /\ LET l == TryLock(holders, p)
       IN  IF l.ok
           THEN /\ holders' = l.holders
                /\ pc' = [pc EXCEPT ![p] = IF act[p] = "chat" THEN "request"
                                           ELSE "overwrite"]
                /\ IF act[p] = "chat" THEN Issue(p, doc[p])
                   ELSE UNCHANGED reqVars
                /\ UNCHANGED lockFailed
           ELSE /\ Die(p)
                /\ lockFailed' = lockFailed \cup {p}
                /\ UNCHANGED reqVars
    /\ UNCHANGED <<file, fexists, runs, act, print, retry, buf>>
    /\ UNCHANGED <<plugVars, scan, tmp, ow, cb, wrote>>

\* a merger that drops its slots when a merge fails
SetPlugResetting(p, r) ==
    /\ doc' = [doc EXCEPT ![p] = r.doc]
    /\ replies' = [replies EXCEPT ![p] = IF r.err THEN <<>> ELSE r.replies]
    /\ reply_buf' = [reply_buf EXCEPT ![p] = r.reply_buf]
    /\ out' = [out EXCEPT ![p] = r.out]

SetPlug(p, r) ==
    /\ doc' = [doc EXCEPT ![p] = r.doc]
    /\ replies' = [replies EXCEPT ![p] = r.replies]
    /\ reply_buf' = [reply_buf EXCEPT ![p] = r.reply_buf]
    /\ out' = [out EXCEPT ![p] = r.out]

\* the content increments the records recs carry for choice index i
RECURSIVE Increments(_, _)
Increments(recs, i) ==
    IF recs = <<>> THEN <<>>
    ELSE LET h == Head(recs)
         IN  (IF h.index # "_" /\ IdxVal(h.index) = i /\ h.content # "_"
              THEN <<h.content>> ELSE <<>>)
             \o Increments(Tail(recs), i)

\* the first role the records recs carry for choice index i ("": none)
RECURSIVE FirstRole(_, _)
FirstRole(recs, i) ==
    IF recs = <<>> THEN ""
    ELSE LET h == Head(recs)
         IN  IF h.index # "_" /\ IdxVal(h.index) = i /\ h.role # "_"
             THEN h.role
             ELSE FirstRole(Tail(recs), i)

\* the record kept of the callback of process p on chunk c: the state it
\* found (pdoc, preplies, pout), what onreply returned, and, over the
\* callbacks of p so far, the Document p started from (doc0), whether all
\* returned "continue" (clean), what their records carried per index, the
\* text the current chat transfer has delivered (stream), the Document and slots
\* left by the callback that returned false (abort), and the increments
\* merged per index since then (rincs)
Callback(p, c, r, res) ==
    LET first == ~cb.called \/ cb.p # p
        recs  == IF r.json = <<>> THEN <<>> ELSE ParseReply(r.json).records
        incs0 == IF first THEN NoCallback.incs ELSE cb.incs
        role0 == IF first THEN NoCallback.roles ELSE cb.roles
    IN  cb' = [called |-> TRUE, p |-> p, full |-> reply_buf[p] \o c,
               json |-> r.json, pdoc |-> doc[p], res |-> res,
               preplies |-> replies[p], pout |-> out[p],
               doc0 |-> IF first THEN doc[p] ELSE cb.doc0,
               clean |-> (first \/ cb.clean) /\ res = "continue",
               incs |-> [i \in {0, 1} |-> incs0[i] \o Increments(recs, i)],
               roles |-> [i \in {0, 1} |->
                             IF role0[i] # "" THEN role0[i]
                             ELSE FirstRole(recs, i)],
               stream |-> IF act[p] # "chat" THEN <<>>
                          ELSE IF first \/ cb.res = "stop" THEN c
                          ELSE cb.stream \o c,
               abort |-> IF res = "stop"
                         THEN [doc |-> r.doc, replies |-> r.replies]
                         ELSE IF first THEN NoCallback.abort ELSE cb.abort,
               rincs |-> [i \in {0, 1} |->
                             IF res = "stop" THEN <<>>
                             ELSE (IF first THEN <<>> ELSE cb.rincs[i])
                                  \o (IF res = "continue"
                                      THEN Increments(recs, i) ELSE <<>>)]]

\* a catch block that never spends the retry credit
RecoverAlways(p, c, r) ==
    /\ Callback(p, c, r, "stop")
    /\ Issue(p, r.doc)
    /\ UNCHANGED <<pc, holders, retry>>

\* the catch block of the write callback: with a retry credit, spend it and
\* return false (onwrite returns 0, cURL fails with CURLE_WRITE_ERROR,
\* request returns false and the loop calls request again); without, die
Recover(p, c, r) ==
    IF retry[p]
    THEN /\ retry' = [retry EXCEPT ![p] = FALSE]
         /\ Callback(p, c, r, "stop")
         /\ Issue(p, r.doc)
         /\ UNCHANGED <<pc, holders>>
    ELSE /\ Die(p)
         /\ Callback(p, c, r, "die")
         /\ UNCHANGED <<retry, reqVars>>

\* a callback that persists only when a fragment was merged
PersistIfMerged(p, r) ==
    IF r.json # <<>>
    THEN DoOverwrite(p, Serialize(r.doc))
    ELSE UNCHANGED <<file, buf, ow, wrote>>

\* wctx.overwrite(a.plugin->context()) in the chat callback
Persist(p, r) == DoOverwrite(p, Serialize(r.doc))

\* the write callback of the chat action on chunk c (main, case chat)
ChatChunk(p, c) ==
    /\ pc[p] = "request" /\ act[p] = "chat"
    /\ LET r == OnReply(PlugState(p), c, print[p])
       IN  /\ WithinBounds(r.doc)
           /\ SetPlug(p, r)
           /\ IF r.err
              THEN /\ Recover(p, c, r)
                   /\ UNCHANGED <<file, buf, ow, wrote>>
              ELSE /\ Persist(p, r)
                   /\ Callback(p, c, r, "continue")
                   /\ UNCHANGED <<pc, holders, retry, reqVars>>
    /\ UNCHANGED <<fexists, runs, act, print, scan, tmp, lockFailed>>

\* a query callback that saves the context like the chat callback
QueryChunkSaving(p, c) ==
    /\ pc[p] = "request" /\ act[p] = "query"
    /\ LET r == OnReply(PlugState(p), c, TRUE)
       IN  /\ WithinBounds(r.doc)
           /\ SetPlug(p, r)
           /\ IF r.err
              THEN /\ Recover(p, c, r)
                   /\ UNCHANGED <<file, buf, ow, wrote>>
              ELSE /\ Persist(p, r)
                   /\ Callback(p, c, r, "continue")
                   /\ UNCHANGED <<pc, holders, retry, reqVars>>
    /\ UNCHANGED <<fexists, runs, act, print, scan, tmp, lockFailed>>

\* the write callback of the query action on chunk c (main, case query)
QueryChunk(p, c) ==
    /\ pc[p] = "request" /\ act[p] = "query"
    /\ LET r == OnReply(PlugState(p), c, TRUE)
       IN  /\ WithinBounds(r.doc)
           /\ SetPlug(p, r)
           /\ IF r.err
              THEN Recover(p, c, r)
              ELSE /\ Callback(p, c, r, "continue")
                   /\ UNCHANGED <<pc, holders, retry, reqVars>>
    /\ UNCHANGED <<file, fexists, runs, act, print, buf, scan, tmp, ow, lockFailed,
                   wrote>>

\* the transfer completes: request returns true, onfinish, return from main
Finish(p) ==
    /\ pc[p] = "request"
    /\ IF OnFinishThrows(doc[p], IF act[p] = "query" THEN TRUE ELSE print[p])
       THEN Die(p)
       ELSE Return(p)
    /\ UNCHANGED <<file, fexists, runs, act, print, retry, buf>>
    /\ UNCHANGED <<plugVars, reqVars, scan, tmp, histVars>>

\* main, case init: overwrite(context()), print the context name, return
InitOverwrite(p) ==
    /\ pc[p] = "overwrite"
    /\ DoOverwrite(p, Serialize(doc[p]))
    /\ Return(p)
    /\ UNCHANGED <<fexists, runs, act, print, retry, plugVars, reqVars, scan, tmp, cb,
                   lockFailed>>

\* SIGTERM (default disposition) ends process p; the kernel drops its locks
Sigterm(p) ==
    /\ Alive(p)
    /\ pc' = [pc EXCEPT ![p] = "killed"]
    /\ holders' = holders \ {p}
    /\ UNCHANGED <<file, fexists, runs, act, print, retry, buf>>
    /\ UNCHANGED <<plugVars, reqVars, scan, tmp, histVars>>

\* a state with the context file holding text f and the processes at pcs,
\* their writers' buffers bufs, the lock held by hs
InitState(f, e, pcs, bufs, hs) ==
    /\ file = f
    /\ fexists = e
    /\ holders = hs
    /\ runs = 0
    /\ pc = pcs
    /\ buf = bufs
    /\ act = [p \in Procs |-> "chat"]
    /\ print = [p \in Procs |-> FALSE]
    /\ retry = [p \in Procs |-> FALSE]
    /\ doc = [p \in Procs |-> EmptyDoc]
    /\ replies = [p \in Procs |-> <<>>]
    /\ reply_buf = [p \in Procs |-> <<>>]
    /\ out = [p \in Procs |-> <<>>]
    /\ nreq = [p \in Procs |-> 0]
    /\ post_buf = [p \in Procs |-> <<>>]
    /\ scan = NoScan
    /\ tmp = NoTmp
    /\ ow = NoOverwrite
    /\ cb = NoCallback
    /\ lockFailed = {}
    /\ wrote = {}

\* the state before any process runs, the context file holding text f
InitWith(f, e) ==
    InitState(f, e, [p \in Procs |-> "idle"], [p \in Procs |-> <<>>], {})

\* overwrite applied to an arbitrary serialization c by a constructed writer
Overwrite(p, c) ==
    /\ pc[p] = "writer"
    /\ DoOverwrite(p, c)
    /\ UNCHANGED <<fexists, holders, runs, procVars, plugVars, reqVars, scan, tmp, cb,
                   lockFailed>>

\* ------------------------------------------------------- specifications
Fits(p, c, n) == Len(reply_buf[p]) + Len(c) <= n

\* one choice record as a complete fragment of the response stream
Frag(t) == <<LBRACE, LBRACE, t, RBRACE, RBRACE>>

ChatToks == {"D0ax", "D0_y", "D0ux", "D1ax", "M0ay"}

\* chunks the transport delivers: whole fragments and the two parts of a
\* fragment cut by the network
ChatChunks ==
    {Frag(t) : t \in ChatToks}
        \cup {<<LBRACE, LBRACE, "D0ax">>, <<RBRACE, RBRACE>>}

UserMsg == [role |-> "u", content |-> <<"q">>]
ArgSets == {<<>>, <<UserMsg>>}

\* context files found on disk: "{}", one stored message (with and without
\* a trailing comment), an "n" option
InitFiles ==
    {<<LBRACE, RBRACE>>,
     <<"-", "u", QUOTE, "q", QUOTE>>,
     <<"-", "u", QUOTE, "q", QUOTE, "w">>,
     <<"n", "2">>}

\* the program run by one process at a time
Init ==
    \/ \E f \in InitFiles : InitWith(f, TRUE)
    \/ InitWith(<<>>, FALSE)

Next ==
    \E p \in {1} :
        \/ \E a \in {"chat", "init"}, pr \in BOOLEAN, rt \in BOOLEAN :
               runs = 0 /\ Start(p, a, pr, rt)
        \/ Prepare(p)
        \/ Touch(p)
        \/ \E args \in ArgSets, nopt \in {0, 2} : ReadContext(p, args, nopt)
        \/ Construct(p)
        \/ \E c \in ChatChunks : Fits(p, c, MaxBuf) /\ ChatChunk(p, c)
        \/ Finish(p)
        \/ InitOverwrite(p)

Spec == Init /\ [][Next]_vars

\* the writer alone: a constructed writer whose buffer A is the file's text
\* receives arbitrary serializations
WriterAlphabet == {"a", "b"}

WriterInit ==
    \E A \in Texts(WriterAlphabet, MaxLen) :
        InitState(A, TRUE, [p \in Procs |-> IF p = 1 THEN "writer" ELSE "idle"],
                  [p \in Procs |-> IF p = 1 THEN A ELSE <<>>], {1})

WriterNext == \E B \in Texts(WriterAlphabet, MaxLen) : Overwrite(1, B)

SpecWriter == WriterInit /\ [][WriterNext]_vars

\* several chat processes on one context file, which none has created yet
LockChunks == {Frag("D0ax"), Frag("D0ux")}

LockInit == InitWith(<<>>, FALSE)

LockNext ==
    \E p \in Procs :
        \/ Start(p, "chat", FALSE, FALSE)
        \/ Prepare(p)
        \/ Touch(p)
        \/ ReadContext(p, <<>>, 0)
        \/ Construct(p)
        \/ \E c \in LockChunks : Fits(p, c, MaxBuf) /\ ChatChunk(p, c)
        \/ Finish(p)
        \/ Sigterm(p)

SpecLock == LockInit /\ [][LockNext]_vars

\* the extractor fed small chunks by a query action
ExtractAlphabet == {LBRACE, RBRACE, QUOTE, BSLASH, "x", "D0ax"}

\* single characters, and a closing brace delivered with the text after it
ExtractChunks ==
    {<<c>> : c \in ExtractAlphabet}
        \cup {<<RBRACE, c>> : c \in {"x", QUOTE, BSLASH}}

ExtractInit == InitWith(<<LBRACE, RBRACE>>, TRUE)

ExtractNext ==
    \E p \in {1} :
        \/ \E rt \in BOOLEAN : runs = 0 /\ Start(p, "query", TRUE, rt)
        \/ Prepare(p)
        \/ ReadContext(p, <<>>, 0)
        \/ \E c \in ExtractChunks : Fits(p, c, MaxText) /\ QueryChunk(p, c)
        \/ Finish(p)

SpecExtract == ExtractInit /\ [][ExtractNext]_vars

\* ---------------------------------------------------------------- claims
\* C1: overwrite(B) on a file holding the previous buffer A, with B at least
\* as long as A, leaves the file and the buffer equal to B; as long as no
\* call shrinks the text, the file equals the last serialization passed.
C1_RoundTrip ==
    /\ (ow.called /\ ow.F = ow.A /\ Len(ow.B) >= Len(ow.A))
           => (file = ow.B /\ buf[ow.p] = ow.B)
    /\ ow.grew => (file = buf[1] /\ (ow.called => file = ow.B))

C1_Witness ==
    /\ ow.called /\ ow.calls = 2 /\ ow.grew
    /\ ow.F = ow.A /\ ow.A # <<>> /\ Len(ow.B) > Len(ow.A)
    /\ Len(ow.log) = 2
    /\ file = ow.B

\* C2: overwrite(B) with B strictly shorter than the previous buffer A does
\* not truncate: the file is B followed by the bytes of A from |B| on.
C2_ShrinkGap ==
    (ow.called /\ ow.F = ow.A /\ Len(ow.B) < Len(ow.A))
        => /\ file = ow.B \o SubSeq(ow.A, Len(ow.B) + 1, Len(ow.A))
           /\ file # ow.B

C2_Witness ==
    /\ ow.called /\ ow.F = ow.A
    /\ ow.B # <<>> /\ Len(ow.B) < Len(ow.A)
    /\ ow.log # <<>>
    /\ Len(file) = Len(ow.A)

\* C3: a second overwrite in a row with the same serialization writes no
\* byte, whatever the buffer was before the first of the two calls.
C3_Idempotent ==
    (ow.calls = 2 /\ ow.A = ow.B) => (ow.log = <<>> /\ file = ow.F)

C3_Witness ==
    /\ ow.calls = 2 /\ ow.A = ow.B /\ ow.B # <<>>
    /\ ow.log = <<>>
    /\ file # ow.B

C5_LockReleased ==
    /\ [](\A p \in holders : Alive(p))
    /\ [][\A p \in Procs :
              (pc[p] = "construct" /\ \A q \in Procs \ {p} : ~Alive(q))
                  => (pc'[p] # "dead" /\ p \notin lockFailed')]_vars

C5_Witness ==
    \E p, q \in Procs :
        /\ p # q
        /\ p \in holders /\ pc[p] = "request"
        /\ pc[q] = "dead" /\ q \in wrote /\ q \notin lockFailed
        /\ runs = MaxRuns

\* C6: after every chat write callback that returns "continue", the writer
\* has been handed the serialization of the plugin's current Document: the
\* writer's buffer is that serialization and the file starts with it.
C6_PersistEveryChunk ==
    (cb.called /\ cb.res = "continue")
        => /\ ow.called /\ ow.p = cb.p
           /\ ow.B = Serialize(doc[cb.p])
           /\ buf[cb.p] = Serialize(doc[cb.p])
           /\ IsPrefix(Serialize(doc[cb.p]), file)

\* a callback whose chunk completed no fragment, after init added a message
C6_Witness ==
    /\ cb.called /\ cb.res = "continue" /\ pc[cb.p] = "request"
    /\ cb.json = <<>> /\ doc[cb.p] = cb.pdoc
    /\ ow.calls = 1 /\ ow.log # <<>>
    /\ file = Serialize(doc[cb.p])

\* C7: when a chat process has returned from main, the context file holds
\* the plugin's final Document.
C7_FinalStatePersisted ==
    \A p \in Procs :
        (pc[p] = "done" /\ act[p] = "chat")
            => /\ ParseYaml(file).ok
               /\ ParseYaml(file).doc = doc[p]

\* ------------------------------------------- objects, defined from scratch
\* s[i..] closes an object opened depth braces deep exactly at the end of s;
\* inStr: position i is inside a double-quoted string
RECURSIVE ObjectScan(_, _, _, _)
ObjectScan(s, i, depth, inStr) ==
    IF i > Len(s) THEN FALSE
    ELSE IF inStr
    THEN IF s[i] = BSLASH THEN ObjectScan(s, i + 2, depth, TRUE)
         ELSE ObjectScan(s, i + 1, depth, s[i] # QUOTE)
    ELSE IF s[i] = LBRACE THEN ObjectScan(s, i + 1, depth + 1, FALSE)
    ELSE IF s[i] = RBRACE
    THEN IF depth = 1 THEN i = Len(s)
         ELSE ObjectScan(s, i + 1, depth - 1, FALSE)
    ELSE ObjectScan(s, i + 1, depth, s[i] = QUOTE)

\* s is one brace-balanced, quote-aware object: it opens with a brace that
\* its last character, a brace outside any string, closes
IsObject(s) ==
    /\ Len(s) >= 2
    /\ s[1] = LBRACE
    /\ ObjectScan(s, 2, 1, FALSE)

NoBraces(s) == \A i \in 1..Len(s) : s[i] \notin {LBRACE, RBRACE}

\* the spans <<i, j>> of t that are objects
ObjectSpans(t) ==
    {ij \in (1..Len(t)) \X (1..Len(t)) :
        ij[1] < ij[2] /\ IsObject(SubSeq(t, ij[1], ij[2]))}

\* the spans of t that are an object with only brace-free text around it
SoleObjectSpans(t) ==
    {ij \in ObjectSpans(t) :
        /\ NoBraces(SubSeq(t, 1, ij[1] - 1))
        /\ NoBraces(SubSeq(t, ij[2] + 1, Len(t)))}

\* C8: when the buffer scanned by onreply is one object with brace-free text
\* before and after it, the extracted fragment is exactly that object; when
\* the buffer has no brace, nothing is extracted.
C8_FragmentExtraction ==
    cb.called =>
        /\ \A ij \in SoleObjectSpans(cb.full) :
               cb.json = SubSeq(cb.full, ij[1], ij[2])
        /\ NoBraces(cb.full) => cb.json = <<>>

\* C9: a fragment returned by the extractor is an object (it opens with a
\* brace, ends with the brace that closes it, balanced outside strings); a
\* callback that extracts nothing, as every callback does whose buffer has
\* no object in it, leaves the Document alone and keeps the whole buffer.
C9_NoPartialFragments ==
    cb.called =>
        /\ cb.json # <<>> => IsObject(cb.json)
        /\ ObjectSpans(cb.full) = {} => cb.json = <<>>
        /\ cb.json = <<>> =>
               /\ doc[cb.p] = cb.pdoc
               /\ reply_buf[cb.p] = cb.full
               /\ cb.res = "continue"

\* a fragment with a brace inside a string was extracted
C9_Witness ==
    /\ cb.called /\ Len(cb.json) >= 5
    /\ \E i \in 2..(Len(cb.json) - 2) :
           /\ cb.json[i] = QUOTE
           /\ cb.json[i + 1] \in {LBRACE, RBRACE}

\* C10: after a callback that extracted a fragment, the buffer it scanned is
\* some text, the fragment, and the new pending buffer, in that order.
C10_ConsumedPrefix ==
    (cb.called /\ cb.json # <<>>) =>
        LET k == Len(cb.full) - Len(cb.json) - Len(reply_buf[cb.p])
        IN  /\ k >= 0
            /\ cb.full = SubSeq(cb.full, 1, k) \o cb.json \o reply_buf[cb.p]
            /\ find_json(cb.full).begin = k

C10_Witness ==
    /\ cb.called /\ cb.json # <<>>
    /\ reply_buf[cb.p] # <<>>
    /\ Len(cb.full) > Len(cb.json) + Len(reply_buf[cb.p])

\* --------------------------------------------- fragments sharing a chunk
MaxStream == 10     \* longest pending buffer of the stream runs

StreamToks == {"D0ax", "D0_y"}

\* the transport delivers whole fragments, one or two to a chunk
StreamChunks ==
    {Frag(t) : t \in StreamToks}
        \cup {Frag(t) \o Frag(u) : t, u \in StreamToks}

StreamInit == InitWith(<<LBRACE, RBRACE>>, TRUE)

StreamNext ==
    \E p \in {1} :
        \/ \E pr \in BOOLEAN : runs = 0 /\ Start(p, "chat", pr, FALSE)
        \/ Prepare(p)
        \/ \E args \in ArgSets : ReadContext(p, args, 0)
        \/ Construct(p)
        \/ \E c \in StreamChunks : Fits(p, c, MaxStream) /\ ChatChunk(p, c)
        \/ Finish(p)

SpecStream == StreamInit /\ [][StreamNext]_vars

\* C11: after every chunk callback that returns "continue" the pending
\* buffer holds no complete top-level object, complete as the extractor
\* itself finds them.
C11_OnlyPartialPending ==
    (cb.called /\ cb.res = "continue")
        => find_json(reply_buf[cb.p]).len = 0

\* ------------------------------------------------ the last callback's merge
\* the records of the fragment the last callback extracted
CbRecs == IF cb.json = <<>> THEN <<>> ELSE ParseReply(cb.json).records

\* the last callback merged one record into a slot that existed before it
CbOnOldSlot ==
    /\ cb.called
    /\ Len(CbRecs) = 1
    /\ CbRecs[1].index # "_"
    /\ IdxVal(CbRecs[1].index) < Len(cb.preplies)

CbRec == CbRecs[1]
CbPos == cb.preplies[IdxVal(CbRec.index) + 1]
CbOld == cb.pdoc.messages[CbPos]
CbNew == doc[cb.p].messages[CbPos]

\* the record is a content increment, or a full message with both fields
CbWellFormed ==
    \/ CbRec.kind = "D"
    \/ CbRec.kind = "M" /\ CbRec.role # "_" /\ CbRec.content # "_"

\* C12: once a slot has a role, a record for it that supplies another role
\* fails and leaves the slot's role and content as they were; a record that
\* supplies no role or the same role is accepted and the role stays.
C12_RoleConsistency ==
    (CbOnOldSlot /\ CbOld.role # "") =>
        IF CbRec.role \notin {"_", CbOld.role}
        THEN cb.res \in {"stop", "die"} /\ CbNew = CbOld
        ELSE CbWellFormed =>
                 (cb.res = "continue" /\ CbNew.role = CbOld.role)

C12_Witness ==
    /\ CbOnOldSlot
    /\ CbOld.role = "a" /\ CbOld.content # <<>>
    /\ CbRec.role = "u"
    /\ cb.res = "stop"
    /\ pc[cb.p] = "request"

\* C13: while every callback of the action has returned "continue", the
\* content of each slot is the concatenation, in merge order, of the
\* increments the records carried for its index; no callback, failed or
\* not, shortens or rewrites the content a message had before it.
C13_AppendOnly ==
    (cb.called /\ pc[cb.p] \in {"request", "done", "dead"}) =>
        /\ cb.clean =>
               \A i \in 0..(Len(replies[cb.p]) - 1) :
                   doc[cb.p].messages[replies[cb.p][i + 1]].content = cb.incs[i]
        /\ Len(doc[cb.p].messages) >= Len(cb.pdoc.messages)
        /\ \A k \in 1..Len(cb.pdoc.messages) :
               IsPrefix(cb.pdoc.messages[k].content,
                        doc[cb.p].messages[k].content)

C13_Witness ==
    /\ cb.called /\ cb.clean /\ pc[cb.p] = "request"
    /\ Len(replies[cb.p]) >= 1
    /\ cb.incs[0] = <<"x", "y">>
    /\ doc[cb.p].messages[replies[cb.p][1]].content = <<"x", "y">>
    /\ cb.pdoc.messages[replies[cb.p][1]].content = <<"x">>

\* the Document of process p without the entries of its slots
BeforeSlots(p) ==
    [doc[p] EXCEPT !.messages =
        SubSeq(@, 1, Len(@) - Len(replies[p]))]

\* C14: when a chat action has finalized, the message history is the history
\* the request was issued with, followed by one entry per slot in ascending
\* index order, each with the slot's role and accumulated content.
C14_CommittedHistory ==
    \A p \in Procs :
        (pc[p] = "done" /\ act[p] = "chat") =>
            /\ Len(doc[p].messages) >= Len(replies[p])
            /\ post_buf[p] = EmitJson(BeforeSlots(p))
            /\ \A i \in 1..Len(replies[p]) :
                   replies[p][i] = Len(doc[p].messages) - Len(replies[p]) + i
            /\ (cb.called /\ cb.p = p /\ cb.clean) =>
                   \A i \in 1..Len(replies[p]) :
                       /\ doc[p].messages[replies[p][i]].content = cb.incs[i - 1]
                       /\ doc[p].messages[replies[p][i]].role = cb.roles[i - 1]

\* the content the messages of document d have beyond what those of
\* document b had, message by message
RECURSIVE Gained(_, _, _)
Gained(b, d, k) ==
    IF k > Len(d.messages) THEN <<>>
    ELSE LET had == IF k <= Len(b.messages) THEN Len(b.messages[k].content)
                    ELSE 0
         IN  SubSeq(d.messages[k].content, had + 1, Len(d.messages[k].content))
             \o Gained(b, d, k + 1)

\* C15: with the print flag set (and at most one choice requested), what a
\* chat callback writes to the user is exactly the content it merged into
\* the Document.
C15_Emission ==
    (cb.called /\ act[cb.p] = "chat" /\ print[cb.p] /\ doc[cb.p].n \in {0, 1})
        => out[cb.p] = cb.pout \o Gained(cb.pdoc, doc[cb.p], 1)

\* the number of choices a request is expected to complete: n, or one when
\* the Document has no n
Expected(d) == IF d.n = 0 THEN 1 ELSE d.n

\* C16: a request action whose response completed fewer choice slots than
\* expected does not finish successfully, whatever the print flag and the
\* expected count.
C16_FinalizeCheck ==
    \A p \in Procs :
        (pc[p] = "done" /\ act[p] \in {"chat", "query"})
            => Len(replies[p]) >= Expected(doc[p])

\* ------------------------------------------------------ the request loop
\* one chat action, with and without --retry, whose response carries
\* fragments that merge and fragments that fail to merge
RetryToks == {"D0ax", "D0ux"}

RetryChunks == {Frag(t) : t \in RetryToks}

RetryInit == InitWith(<<LBRACE, RBRACE>>, TRUE)

RetryNext ==
    \E p \in {1} :
        \/ \E pr, rt \in BOOLEAN : runs = 0 /\ Start(p, "chat", pr, rt)
        \/ Prepare(p)
        \/ \E args \in ArgSets : ReadContext(p, args, 0)
        \/ Construct(p)
        \/ \E c \in RetryChunks : Fits(p, c, MaxText) /\ ChatChunk(p, c)
        \/ Finish(p)

\* every response ends: curl_easy_perform returns and the action goes on to
\* onfinish
SpecRetry == RetryInit /\ [][RetryNext]_vars /\ WF_vars(Finish(1))

\* a step in which a callback of process p has just failed to merge
MergeError(p) == cb' # cb /\ cb'.p = p /\ cb'.res \in {"stop", "die"}

\* C17: a merge error with the retry credit spends the credit, aborts the
\* transfer and reissues the request (the second of the action); a merge
\* error without the credit, be it the second error or the first without
\* --retry, is fatal; so an action issues at most two requests and its
\* request loop ends.
C17_SingleRetry ==
    /\ [](\A p \in Procs : nreq[p] <= 2)
    /\ [][\A p \in Procs :
            /\ MergeError(p) =>
                   IF retry[p]
                   THEN /\ cb'.res = "stop"
                        /\ ~retry'[p]
                        /\ nreq[p] = 1 /\ nreq'[p] = 2
                        /\ pc'[p] = "request"
                   ELSE /\ cb'.res = "die"
                        /\ pc'[p] = "dead"
                        /\ nreq'[p] = nreq[p]
            /\ (nreq[p] >= 1 /\ nreq'[p] > nreq[p]) => MergeError(p) /\ retry[p]
       ]_vars
    /\ \A p \in Procs : (pc[p] = "request") ~> (pc[p] \in {"done", "dead"})

\* the reissued request has failed to merge as well, and the action is dead
C17_Witness ==
    /\ cb.called /\ cb.res = "die"
    /\ nreq[cb.p] = 2
    /\ pc[cb.p] = "dead"
    /\ ~retry[cb.p]

\* C18: when a callback fails to merge and the request is reissued, the
\* Document keeps every message and all content it had before the failing
\* callback and since the action's first request, and the body of the
\* reissued request is the serialisation of that Document.
Extends(d, b) ==
    /\ d.n = b.n
    /\ Len(d.messages) >= Len(b.messages)
    /\ \A k \in 1..Len(b.messages) :
           /\ d.messages[k].role = b.messages[k].role
           /\ Len(d.messages[k].content) >= Len(b.messages[k].content)
           /\ SubSeq(d.messages[k].content, 1, Len(b.messages[k].content))
                  = b.messages[k].content

C18_RetryRetainsContext ==
    (cb.called /\ cb.res = "stop" /\ pc[cb.p] = "request" /\ nreq[cb.p] = 2)
        => /\ Extends(doc[cb.p], cb.pdoc)
           /\ Extends(cb.pdoc, cb.doc0)
           /\ post_buf[cb.p] = EmitJson(doc[cb.p])

\* the request was reissued after an earlier callback had merged content
C18_Witness ==
    /\ cb.called /\ cb.res = "stop" /\ pc[cb.p] = "request" /\ nreq[cb.p] = 2
    /\ cb.pdoc # cb.doc0
    /\ doc[cb.p] = cb.pdoc
    /\ post_buf[cb.p] # EmitJson(cb.doc0)

\* ------------------------------------------------------------- kill_ctx
NPids == 3          \* entries of the process table

Pids == 1..NPids

\* executable images: the directory and the file name of /proc/<pid>/exe
Exes == {<<"/usr/bin", "llmq">>, <<"/opt", "llmq">>, <<"/usr/bin", "cat">>}

\* fs::path::filename
Filename(e) == e[2]

\* a process as the scan sees it: its executable, whether one of its
\* descriptors resolves to the context file, and whether inspecting it
\* throws (it exited, or permission is denied)
ProcRecords == [exe : Exes, open : BOOLEAN, err : BOOLEAN]

\* process tables, the scanning process being inspectable itself
Tables(self) ==
    {t \in [Pids -> ProcRecords] : ~t[self].err}

\* the body of the try block for entry q: found_ctx
FoundCtx(t, self, q) ==
    /\ q # self
    /\ ~t[q].err
    /\ Filename(t[q].exe) = Filename(t[self].exe)
    /\ t[q].open

\* main, case kill: kill_ctx begins its pass over /proc
KillStart(t, self) ==
    /\ scan.st = "idle"
    /\ scan' = [st |-> "scan", table |-> t, self |-> self, i |-> 1,
                killed |-> FALSE, signaled |-> <<>>, warned |-> 0]
    /\ UNCHANGED <<fileVars, runs, procVars, buf, plugVars, reqVars, tmp, histVars>>

\* a pass that goes on to the next entry when a signal cannot be delivered
KillVisitContinuing(ok) ==
    /\ scan.st = "scan"
    /\ scan.i <= NPids
    /\ IF FoundCtx(scan.table, scan.self, scan.i)
       THEN scan' = [scan EXCEPT
                !.warned = IF scan.killed THEN @ + 1 ELSE @,
                !.killed = TRUE,
                !.signaled = IF ok THEN Append(@, scan.i) ELSE @,
                !.i = @ + 1]
       ELSE ok /\ scan' = [scan EXCEPT !.i = @ + 1]
    /\ UNCHANGED <<fileVars, runs, procVars, buf, plugVars, reqVars, tmp, histVars>>

\* a pass that returns after the first process it signals
KillVisitFirstOnly(ok) ==
    /\ scan.st = "scan"
    /\ scan.i <= NPids
    /\ IF FoundCtx(scan.table, scan.self, scan.i)
       THEN scan' = [scan EXCEPT
                !.killed = TRUE,
                !.signaled = IF ok THEN Append(@, scan.i) ELSE @,
                !.st = IF ok THEN "ok" ELSE "fail",
                !.i = IF ok THEN NPids + 1 ELSE @]
       ELSE ok /\ scan' = [scan EXCEPT !.i = @ + 1]
    /\ UNCHANGED <<fileVars, runs, procVars, buf, plugVars, reqVars, tmp, histVars>>

\* one iteration of the loop over /proc; ok: ::kill succeeds
KillVisit(ok) ==
    /\ scan.st = "scan"
    /\ scan.i <= NPids
    /\ IF FoundCtx(scan.table, scan.self, scan.i)
       THEN scan' = [scan EXCEPT
                !.warned = IF scan.killed THEN @ + 1 ELSE @,
                !.killed = TRUE,
                !.signaled = IF ok THEN Append(@, scan.i) ELSE @,
                !.st = IF ok THEN @ ELSE "fail",
                !.i = IF ok THEN @ + 1 ELSE @]
       ELSE ok /\ scan' = [scan EXCEPT !.i = @ + 1]
    /\ UNCHANGED <<fileVars, runs, procVars, buf, plugVars, reqVars, tmp, histVars>>

\* the end of the loop: die unless a process was found
KillEnd ==
    /\ scan.st = "scan"
    /\ scan.i > NPids
    /\ scan' = [scan EXCEPT !.st = IF scan.killed THEN "ok" ELSE "fail"]
    /\ UNCHANGED <<fileVars, runs, procVars, buf, plugVars, reqVars, tmp, histVars>>

KillInit == InitWith(<<>>, FALSE)

KillNext ==
    \/ /\ scan.st = "idle"
       /\ \E self \in Pids : \E t \in Tables(self) : KillStart(t, self)
    \/ \E ok \in BOOLEAN : KillVisit(ok)
    \/ KillEnd

SpecKill == KillInit /\ [][KillNext]_vars

\* the processes the pass has signaled
Signaled == {scan.signaled[k] : k \in 1..Len(scan.signaled)}

\* the inspectable processes other than the current one that run the same
\* executable and have the context file open
Targets ==
    {q \in Pids \ {scan.self} :
        /\ ~scan.table[q].err
        /\ scan.table[q].exe = scan.table[scan.self].exe
        /\ scan.table[q].open}

\* C19: a pass that has gone through the whole process table has signaled
\* exactly the other processes that run the same executable and have the
\* context file open, each once, and never the current process.
C19_LocatorTargetSet ==
    (scan.st \in {"ok", "fail"} /\ scan.i > NPids)
        => /\ Signaled = Targets
           /\ Len(scan.signaled) = Cardinality(Signaled)
           /\ scan.self \notin Signaled

\* the processes the pass takes for holders of the context file
Matches ==
    {q \in Pids : FoundCtx(scan.table, scan.self, q)}

\* the matches the pass has reached
Reached ==
    {q \in Matches : q < scan.i \/ (q = scan.i /\ scan.st = "fail")}

C21_TransientSkip ==
    (scan.st \in {"scan", "ok", "fail"})
        => /\ \A q \in Pids :
                  (q < scan.i /\ scan.table[q].err) => q \notin Signaled
           /\ (scan.st = "fail") => (scan.i > NPids /\ ~scan.killed)

\* ------------------------------------------- termination during overwrite
\* the file after the first k write_file calls of log have reached it
RECURSIVE ApplyLog(_, _, _)
ApplyLog(f, log, k) ==
    IF k = 0 THEN f
    ELSE WriteAt(ApplyLog(f, log, k - 1), log[k][1], log[k][2])

\* SIGTERM (default disposition, sent by kill_ctx without taking the lock)
\* ends process p inside overwrite(c), after k of its writes have reached
\* the file; _buf and the rest of the writes die with the process
OverwriteKilled(p, c, k) ==
    LET r == OverwriteResult(file, buf[p], c)
    IN  /\ pc[p] = "writer"
        /\ k \in 0..Len(r.log)
        /\ file' = ApplyLog(file, r.log, k)
        /\ pc' = [pc EXCEPT ![p] = "killed"]
        /\ holders' = holders \ {p}
        /\ ow' = [called |-> TRUE, p |-> p, A |-> buf[p], F |-> file,
                  B |-> c, log |-> SubSeq(r.log, 1, k),
                  calls |-> Min(ow.calls + 1, 2),
                  grew |-> ow.grew /\ Len(c) >= Len(buf[p])]
        /\ wrote' = IF k > 0 THEN wrote \cup {p} ELSE wrote
        /\ UNCHANGED <<fexists, runs, act, print, retry, buf, plugVars,
                       reqVars, scan, tmp, cb, lockFailed>>

TermInit == WriterInit

TermNext ==
    \E B \in Texts(WriterAlphabet, MaxLen) :
        \/ Overwrite(1, B)
        \/ \E k \in 0..MaxLen : OverwriteKilled(1, B, k)

SpecTerm == TermInit /\ [][TermNext]_vars

\* C22: when a writer is terminated inside an overwrite that does not
\* shrink the content, the file holds in full either the text it held
\* before that overwrite or the serialization passed to it.
C22_NoCorruptionUnderTermination ==
    (ow.called /\ pc[ow.p] = "killed" /\ Len(ow.B) >= Len(ow.A))
        => file = ow.F \/ file = ow.B

\* C23: every serialization the chat and init actions pass to overwrite is
\* at least as long as the writer's buffer at that call (the text read from
\* the file, or the serialization written before).
C23_ContentNeverShrinks ==
    (ow.called /\ act[ow.p] \in {"chat", "init"})
        => Len(ow.B) >= Len(ow.A)

\* ------------------------------------------------- unrecoverable errors
\* a cURL error that does not come from the write callback
\* (curl_easy_perform returns neither CURLE_OK nor CURLE_WRITE_ERROR) under
\* a request function that reports it like the callback's stop
TransportErrorRetried(p) ==
    /\ pc[p] = "request"
    /\ IF retry[p]
       THEN /\ retry' = [retry EXCEPT ![p] = FALSE]
            /\ Issue(p, doc[p])
            /\ UNCHANGED <<pc, holders>>
       ELSE /\ Die(p)
            /\ UNCHANGED <<retry, reqVars>>
    /\ UNCHANGED <<file, fexists, runs, act, print, buf>>
    /\ UNCHANGED <<plugVars, scan, tmp, histVars>>

\* request: curl_easy_perform returns an error other than CURLE_WRITE_ERROR
TransportError(p) ==
    /\ pc[p] = "request"
    /\ Die(p)
    /\ UNCHANGED <<file, fexists, runs, act, print, retry, buf>>
    /\ UNCHANGED <<plugVars, reqVars, scan, tmp, histVars>>

\* open_file, read_file, seek_file or write_file fails: die. The file is
\* read at "read", opened "r+" at "construct" and written by overwrite in
\* the chat callback and in the init action
IoError(p) ==
    /\ \/ pc[p] \in {"read", "construct", "overwrite"}
       \/ pc[p] = "request" /\ act[p] = "chat"
    /\ Die(p)
    /\ UNCHANGED <<file, fexists, runs, act, print, retry, buf>>
    /\ UNCHANGED <<plugVars, reqVars, scan, tmp, histVars>>

\* a context file that is not YAML: a message whose content is missing
BadFile == <<"-", "u">>

\* process 1 is about to run; the lock is free, or held by the constructed
\* writer of process 2
ErrInit ==
    \E f \in {<<LBRACE, RBRACE>>, BadFile}, held \in BOOLEAN :
        InitState(f, TRUE,
                  [p \in Procs |-> IF p = 2 /\ held THEN "writer" ELSE "idle"],
                  [p \in Procs |-> IF p = 2 /\ held THEN f ELSE <<>>],
                  IF held THEN {2} ELSE {})

ErrNext ==
    \E p \in {1} :
        \/ \E rt \in BOOLEAN : Start(p, "chat", FALSE, rt)
        \/ Prepare(p)
        \/ ReadContext(p, <<>>, 0)
        \/ Construct(p)
        \/ \E c \in RetryChunks : Fits(p, c, MaxBuf) /\ ChatChunk(p, c)
        \/ Finish(p)
        \/ TransportError(p)
        \/ IoError(p)

SpecErr == ErrInit /\ [][ErrNext]_vars

\* process p is running and stays the same run in this step
SameRun(p) == pc[p] \notin Ended /\ pc'[p] # "start"

\* C24: a step that ends an action in an error (parse, lock, file I/O,
\* transport, and a merge error without credit) leaves the retry credit and
\* the number of requests issued as they were; the credit is spent and the
\* request reissued only by a callback that failed to merge and returned
\* its stop signal; an action goes past parsing only with a parsable file
\* and past the lock only holding it.
C24_UnrecoverableNotRetried ==
    /\ [][\A p \in Procs : SameRun(p) =>
            /\ (pc'[p] = "dead") =>
                   (retry'[p] = retry[p] /\ nreq'[p] = nreq[p])
            /\ (retry'[p] # retry[p] \/ (nreq[p] >= 1 /\ nreq'[p] # nreq[p]))
                   => (MergeError(p) /\ cb'.res = "stop" /\ pc'[p] = "request")
       ]_vars
    /\ [](\A p \in Procs :
            /\ (pc[p] = "construct") => ParseYaml(buf[p]).ok
            /\ (pc[p] = "request") => p \in holders
            /\ (p \in lockFailed) => (pc[p] = "dead" /\ nreq[p] = 0))

\* an action that had a retry credit ended in an error that is not a merge
\* error, after its request was issued, with the credit unspent
C24_Witness ==
    \E p \in Procs :
        /\ pc[p] = "dead"
        /\ retry[p]
        /\ nreq[p] = 1
        /\ doc[p].n = 0
        /\ ~(cb.called /\ cb.p = p)

\* C25: no step of a query action changes the context file or the set of
\* lock holders; the query process never holds the lock and never calls
\* overwrite, while its merges change the in-memory Document.
C25_QueryLeavesContext ==
    /\ [][\A p \in Procs : (act[p] = "query" /\ act'[p] = "query") =>
            /\ file' = file
            /\ fexists => fexists'
            /\ holders' = holders]_vars
    /\ [](\A p \in Procs : act[p] = "query" =>
            /\ p \notin holders
            /\ p \notin wrote
            /\ ~(ow.called /\ ow.p = p))

\* a query has finished after a retry, its Document holding a merged
\* message the file does not have
C25_Witness ==
    \E p \in Procs :
        /\ act[p] = "query" /\ pc[p] = "done"
        /\ nreq[p] = 2
        /\ doc[p].messages # <<>>
        /\ doc[p] # ParseYaml(file).doc
        /\ file = <<LBRACE, RBRACE>>

\* ------------------------------------------------------- compute_tmpctx
MaxSec == 2         \* seconds the clock advances

\* the temporary context named "~<second>.<idx>"
TmpName(base, idx) == <<base, idx>>

\* the name process p has settled on (idx was incremented after the probe)
Chosen(p) == TmpName(tmp.base[p], tmp.idx[p] - 1)

\* the system clock reaches the next second
Tick ==
    /\ tmp.now < MaxSec
    /\ tmp' = [tmp EXCEPT !.now = @ + 1]
    /\ UNCHANGED <<fileVars, runs, procVars, buf, plugVars, reqVars, scan,
                   histVars>>

\* main, case init without CONTEXT: compute_tmpctx formats the current
\* second into fname_base and starts at idx 0
TmpStart(p) ==
    /\ tmp.st[p] \in {"idle", "used"}
    /\ tmp.inits < MaxRuns
    /\ tmp' = [tmp EXCEPT !.st[p] = "probe", !.base[p] = tmp.now,
                          !.idx[p] = 0, !.inits = @ + 1]
    /\ UNCHANGED <<fileVars, runs, procVars, buf, plugVars, reqVars, scan,
                   histVars>>

\* one iteration of the do-while loop: build the name, ++idx, and leave the
\* loop when no file of that name exists
TmpProbe(p) ==
    /\ tmp.st[p] = "probe"
    /\ LET f == TmpName(tmp.base[p], tmp.idx[p])
       IN  tmp' = [tmp EXCEPT
               !.idx[p] = @ + 1,
               !.st[p] = IF f \in tmp.files THEN "probe" ELSE "named",
               !.chosen = IF f \in tmp.files THEN @ ELSE Append(@, f)]
    /\ UNCHANGED <<fileVars, runs, procVars, buf, plugVars, reqVars, scan,
                   histVars>>

\* init_plugctx on the chosen name: prepare_ctxfile creates the file unless
\* it exists, and the action goes on to read and write it
TmpPrepare(p) ==
    /\ tmp.st[p] = "named"
    /\ tmp' = [tmp EXCEPT !.files = @ \cup {Chosen(p)}, !.st[p] = "used"]
    /\ UNCHANGED <<fileVars, runs, procVars, buf, plugVars, reqVars, scan,
                   histVars>>

TmpInit == InitWith(<<>>, FALSE)

TmpNext ==
    \/ Tick
    \/ \E p \in Procs :
        \/ TmpStart(p)
        \/ TmpProbe(p)
        \/ TmpPrepare(p)

SpecTmp == TmpInit /\ [][TmpNext]_vars

\* C26: no two init actions invoked without CONTEXT settle on the same
\* context file.
C26_UniqueTemporaryContext ==
    \A i, j \in 1..Len(tmp.chosen) :
        i # j => tmp.chosen[i] # tmp.chosen[j]

\* ------------------------------------------------------ the writes issued
\* write w = <<offset, data>> of an overwrite from A to B covers a maximal
\* run of positions at which A and B differ
DiffRun(A, B, w) ==
    LET lo == w[1] + 1
        hi == w[1] + Len(w[2])
    IN  /\ hi <= Min(Len(A), Len(B))
        /\ \A i \in lo..hi : A[i] # B[i]
        /\ lo = 1 \/ A[lo - 1] = B[lo - 1]
        /\ hi = Min(Len(A), Len(B)) \/ A[hi + 1] = B[hi + 1]

\* write w covers the tail of B beyond the length of A
TailRun(A, B, w) ==
    /\ Len(B) > Len(A)
    /\ w[1] = Len(A)
    /\ w[1] + Len(w[2]) = Len(B)

\* C27: every write of an overwrite carries the new serialization's text
\* for a non-empty range that is either a maximal run of positions where the
\* previous buffer and the new serialization differ or the tail of the new
\* serialization beyond the previous buffer; so no position where the two
\* agree is written, and no range is written twice.
C27_MinimalRewriteFrame ==
    ow.called =>
        /\ \A k \in 1..Len(ow.log) :
               LET w == ow.log[k]
               IN  /\ w[2] # <<>>
                   /\ w[2] = SubSeq(ow.B, w[1] + 1, w[1] + Len(w[2]))
                   /\ DiffRun(ow.A, ow.B, w) \/ TailRun(ow.A, ow.B, w)
                   /\ \A i \in w[1] + 1..w[1] + Len(w[2]) :
                          i <= Len(ow.A) => ow.A[i] # ow.B[i]
        /\ \A j, k \in 1..Len(ow.log) :
               j < k => ow.log[j][1] + Len(ow.log[j][2]) <= ow.log[k][1]

\* an overwrite that skipped an equal position, wrote a differing run and
\* then the tail
C27_Witness ==
    /\ ow.called
    /\ Len(ow.log) = 2
    /\ ow.log[1][1] > 0
    /\ DiffRun(ow.A, ow.B, ow.log[1])
    /\ TailRun(ow.A, ow.B, ow.log[2])

\* ------------------------------------------------------ lazy slot growth
\* the last callback reached the merge of one record with a choice index
CbIndexed ==
    /\ cb.called
    /\ Len(CbRecs) = 1
    /\ CbRecs[1].index # "_"

\* C28: the merge of a record with choice index k when s slots exist leaves
\* max(s, k + 1) slots; the s slots keep their positions, the new slots are
\* message entries appended in index order, those for indices below k with
\* empty role and empty content; and no step of an action lowers the slot
\* count or moves a slot.
C28_LazySlotGrowth ==
    /\ [](CbIndexed =>
            LET k  == IdxVal(CbRec.index)
                s  == Len(cb.preplies)
                r  == replies[cb.p]
                ms == doc[cb.p].messages
            IN  /\ Len(r) = Max(s, k + 1)
                /\ SubSeq(r, 1, s) = cb.preplies
                /\ Len(ms) = Len(cb.pdoc.messages) + (Len(r) - s)
                /\ \A i \in (s + 1)..Len(r) :
                       r[i] = Len(cb.pdoc.messages) + (i - s)
                /\ \A i \in (s + 1)..k :
                       ms[r[i]] = [role |-> "", content |-> <<>>])
    /\ [][\A p \in Procs : SameRun(p) =>
            /\ Len(replies'[p]) >= Len(replies[p])
            /\ SubSeq(replies'[p], 1, Len(replies[p])) = replies[p]]_vars

\* index 1 arrived before index 0: two slots were created, the one for
\* index 0 empty
C28_Witness ==
    /\ CbIndexed
    /\ IdxVal(CbRec.index) = 1
    /\ cb.preplies = <<>>
    /\ Len(replies[cb.p]) = 2
    /\ doc[cb.p].messages[replies[cb.p][1]] = [role |-> "", content |-> <<>>]

\* -------------------------------------------------- malformed fragments
\* fragments without "choices", with a "choices" that is no sequence or is
\* empty, and with one record that is well-formed or lacks a field
BadToks == {"D_ax", "N0__", "Q0ax", "M0a_", "M0_x", "M0ax", "D0ax"}

BadChunks ==
    {<<LBRACE, RBRACE>>, <<LBRACE, "S", RBRACE>>, <<LBRACE, "E", RBRACE>>}
        \cup {Frag(t) : t \in BadToks}

BadInit == InitWith(<<LBRACE, RBRACE>>, TRUE)

BadNext ==
    \E p \in {1} :
        \/ \E rt \in BOOLEAN : runs = 0 /\ Start(p, "chat", TRUE, rt)
        \/ Prepare(p)
        \/ ReadContext(p, <<>>, 0)
        \/ Construct(p)
        \/ /\ Len(cb.stream) < MaxStream
           /\ \E c \in BadChunks : Fits(p, c, MaxBuf) /\ ChatChunk(p, c)
        \/ Finish(p)

SpecBad == BadInit /\ [][BadNext]_vars

\* a choice record without a readable index, with neither a full message
\* nor a map-valued delta, or with a full message that lacks role or content
BadRecord(rec) ==
    \/ rec.index = "_"
    \/ rec.kind \notin {"D", "M"}
    \/ rec.kind = "M" /\ (rec.role = "_" \/ rec.content = "_")

\* a fragment that has no "choices", whose "choices" is not a sequence or is
\* empty, or that holds a bad record
Malformed(json) ==
    LET tree == ParseReply(json)
    IN  \/ tree.choices # "seq"
        \/ tree.records = <<>>
        \/ \E i \in 1..Len(tree.records) : BadRecord(tree.records[i])

\* C29: a callback whose fragment is malformed fails to merge.
C29_MalformedRejected ==
    (cb.called /\ cb.json # <<>> /\ Malformed(cb.json))
        => cb.res \in {"stop", "die"}

\* ------------------------------------------------ escapes inside strings
\* text s from position i on with every character that is a quote, lies
\* inside a double-quoted string or is a backslash replaced by "x": inside a
\* string (inStr) a backslash hides the character after it (skip), an
\* unescaped quote ends the string; outside, a quote begins a string and a
\* backslash is an ordinary character
RECURSIVE Neutral(_, _, _, _)
Neutral(s, i, inStr, skip) ==
    IF i > Len(s) THEN <<>>
    ELSE LET c == s[i]
         IN  IF skip THEN <<"x">> \o Neutral(s, i + 1, inStr, FALSE)
             ELSE IF inStr
             THEN <<"x">> \o Neutral(s, i + 1, c # QUOTE, c = BSLASH)
             ELSE IF c = QUOTE THEN <<"x">> \o Neutral(s, i + 1, TRUE, FALSE)
             ELSE IF c = BSLASH THEN <<"x">> \o Neutral(s, i + 1, FALSE, FALSE)
             ELSE <<c>> \o Neutral(s, i + 1, FALSE, FALSE)

\* C30: the fragment a callback extracts from its buffer is the one brace
\* matching alone finds once strings are blanked out, a string running from
\* a quote to the next quote that no backslash inside the string escapes;
\* a backslash outside a string changes nothing.
C30_EscapesInsideStrings ==
    cb.called =>
        LET v == find_json(Neutral(cb.full, 1, FALSE, FALSE))
        IN  cb.json = (IF v.len = 0 THEN <<>> ELSE ViewText(cb.full, v))

\* an escaped quote did not end the string: the closing brace after it is
\* still inside the string and nothing was extracted
C30_Witness ==
    /\ cb.called
    /\ cb.full = <<LBRACE, QUOTE, BSLASH, QUOTE, RBRACE>>
    /\ cb.json = <<>>

\* ---------------------------------------------------------------------
\* Chunking of the response stream

\* the write callback applied to the text s delivered one token per chunk,
\* from plugin state st; the transfer stops at the first merge error
RECURSIVE Transfer(_, _, _)
Transfer(st, s, pr) ==
    IF s = <<>> THEN st
    ELSE LET r == OnReply(st, <<Head(s)>>, pr)
         IN  IF r.err THEN r ELSE Transfer(r, Tail(s), pr)

\* the plugin state a process has when its first transfer begins
TransferStart ==
    [doc |-> cb.doc0, replies |-> <<>>, reply_buf |-> <<>>, out |-> <<>>]

\* C31: when a transfer has ended, the Document is the one the same
\* response text produces when it is delivered in chunks of one token
C31_ChunkingIndependence ==
    (cb.called /\ pc[cb.p] = "done" /\ nreq[cb.p] = 1)
        => doc[cb.p] = Transfer(TransferStart, cb.stream, print[cb.p]).doc

\* ---------------------------------------------------------------------
\* Role of a slot

\* the role the slot of the last callback's record had before the callback;
\* a slot the callback had to create has the empty role
CbPriorRole ==
    IF IdxVal(CbRec.index) < Len(cb.preplies) THEN CbOld.role ELSE ""

\* the last callback merged one delta record that supplies no role
CbRolelessDelta ==
    /\ cb.called
    /\ Len(CbRecs) = 1
    /\ CbRec.kind = "D" /\ CbRec.index # "_" /\ CbRec.role = "_"

\* C32: a delta without a role for a slot that has no role yet fails; for a
\* slot whose role is set it is merged under that role
C32_RoleMustComeFirst ==
    CbRolelessDelta =>
        IF CbPriorRole = ""
        THEN cb.res \in {"stop", "die"}
        ELSE /\ cb.res = "continue"
             /\ CbNew.role = CbPriorRole

\* ---------------------------------------------------------------------
\* Failed merges

\* C33: a callback whose merge failed leaves the Document and the slots as
\* they were before the callback
C33_FailedMergeAtomic ==
    (cb.called /\ cb.json # <<>> /\ cb.res \in {"stop", "die"})
        => /\ doc[cb.p] = cb.pdoc
           /\ replies[cb.p] = cb.preplies

\* C34: when the request is reissued after a merge error, the pending
\* fragment buffer is empty at the start of the new transfer
C34_CleanBufferOnRetry ==
    (cb.called /\ cb.res = "stop" /\ pc[cb.p] = "request" /\ nreq[cb.p] = 2)
        => reply_buf[cb.p] = <<>>

\* ---------------------------------------------------------------------
\* Slots across a reissued request

\* the callbacks of the reissued request of a process have all merged
Reissued ==
    /\ cb.called
    /\ nreq[cb.p] = 2
    /\ cb.res = "continue"

\* C35: in the reissued request every index the aborted response used is
\* merged into the entry it had: its slot is the same, its content is the
\* content at the error followed by the increments merged since, and the
\* only entries added are those of indices not seen before
C35_SlotsPersistAcrossRetry ==
    Reissued =>
        /\ IsPrefix(cb.abort.replies, replies[cb.p])
        /\ Len(cb.abort.doc.messages) <= Len(doc[cb.p].messages)
        /\ \A i \in 0..(Len(cb.abort.replies) - 1) :
               LET k == cb.abort.replies[i + 1]
               IN  /\ doc[cb.p].messages[k].role
                          \in {cb.abort.doc.messages[k].role, cb.roles[i]}
                   /\ doc[cb.p].messages[k].content
                          = cb.abort.doc.messages[k].content \o cb.rincs[i]
        /\ Len(doc[cb.p].messages) - Len(cb.abort.doc.messages)
               = Len(replies[cb.p]) - Len(cb.abort.replies)

\* an index merged before the error is merged again after the reissue
C35_Witness ==
    /\ Reissued
    /\ pc[cb.p] = "request"
    /\ Len(cb.abort.replies) >= 1
    /\ cb.abort.doc.messages[cb.abort.replies[1]].content # <<>>
    /\ cb.rincs[0] # <<>>

\* ---------------------------------------------------------------------
\* Concurrent processes on one context file

\* C36: in the step in which a process acquires the lock, the text it holds
\* as the baseline of its diffs is the text of the file
C36_BaselineMatchesFile ==
    [][\A p \in Procs :
          (p \notin holders /\ p \in holders') => buf'[p] = file']_vars

\* main, case del: remove the context file if it exists, else die.  The
\* lock is neither requested nor tested.  The bytes of a removed file stay
\* reachable through the descriptor of a writer that has it open.
Del(p) ==
    /\ pc[p] \in Ended
    /\ act' = [act EXCEPT ![p] = "del"]
    /\ IF fexists
       THEN /\ fexists' = FALSE
            /\ file' = IF holders = {} THEN <<>> ELSE file
            /\ Return(p)
       ELSE /\ Die(p)
            /\ UNCHANGED <<file, fexists>>
    /\ UNCHANGED <<runs, print, retry, buf>>
    /\ UNCHANGED <<plugVars, reqVars, scan, tmp, histVars>>

DelChunks == {Frag("D0ax"), Frag("D0ux")}

DelInit == \E f \in InitFiles : InitWith(f, TRUE)

\* process 1 runs chat once; process 2 runs del, before the chat starts, while
\* it receives its response, or after it has ended
DelNext ==
    \/ \E p \in {1} :
           \/ \E pr \in BOOLEAN : runs = 0 /\ Start(p, "chat", pr, FALSE)
           \/ Prepare(p)
           \/ Touch(p)
           \/ ReadContext(p, <<>>, 0)
           \/ Construct(p)
           \/ \E c \in DelChunks : Fits(p, c, MaxBuf) /\ ChatChunk(p, c)
           \/ Finish(p)
    \/ pc[1] \in Ended \cup {"request"} /\ Del(2)

SpecDel == DelInit /\ [][DelNext]_vars

\* C37: while a process holds the lock, the file is changed, truncated or
\* removed only by an overwrite of the lock holder
C37_ModificationsUnderLock ==
    [][(holders # {} /\ (file' # file \/ fexists' # fexists))
          => (ow' # ow /\ ow'.p \in holders /\ ow'.F = file
                /\ fexists' = fexists)]_vars

\* ---------------------------------------------------------------------
\* Failure to signal

\* the pass has stopped inside the table
KillAborted == scan.st = "fail" /\ scan.i <= NPids

\* C38: the pass never goes on beyond a match it could not signal: it
\* stops with a fatal error at that match, and no entry after it has been
\* signaled
C38_SignalFailureAborts ==
    /\ (scan.st \in {"scan", "ok", "fail"}) =>
           \A q \in Matches : q < scan.i => q \in Signaled
    /\ KillAborted =>
           /\ scan.i \in Matches
           /\ scan.i \notin Signaled
           /\ \A q \in Pids : q > scan.i => q \notin Signaled

\* the signal to a match failed while a later entry matches too
C38_Witness ==
    /\ KillAborted
    /\ \E q \in Matches : q > scan.i
    /\ scan.i \notin Signaled

====
